---- MODULE Spec2Model ----
(***************************************************************************)
(* The ai-gateway forwarding path (src/proxy.rs,                           *)
(* proxy_request_to_provider) and the Bedrock provider's pure              *)
(* transformations (src/providers/bedrock.rs).                             *)
(*                                                                         *)
(* Text is modelled as a sequence of tokens (a token is a run of bytes):   *)
(* format! is concatenation, str::contains is a search for a contiguous   *)
(* run of tokens, and HeaderValue::to_str fails on a value that holds a    *)
(* byte outside visible ASCII.                                             *)
(***************************************************************************)
EXTENDS Integers, Sequences, FiniteSets, TLC

(* ------------------------------ bounds --------------------------------- *)

\* longest upstream body, in chunks
MaxChunks == 3

(* --------------------------- Option / Result --------------------------- *)

None == [some |-> FALSE]
Some(x) == [some |-> TRUE, v |-> x]

Pending == [tag |-> "Pending"]
Err(e) == [tag |-> "Err", error |-> e]
OkResponse == [tag |-> "Ok"]

(* ------------------------------- text ---------------------------------- *)

\* tokens that stand for bytes 0x80..0xFF (obs-text, legal in a header value)
ObsTextTokens == {"<0xE9>"}
\* tokens that stand for control bytes (illegal in a header value)
CtlTokens == {"<0x01>"}

\* str::contains
Contains(s, pat) ==
    \E i \in 0..(Len(s) - Len(pat)) :
        \A j \in 1..Len(pat) : s[i + j] = pat[j]

\* HeaderValue::to_str: Some(text) when every byte is visible ASCII (or tab)
ToStr(value) ==
    IF \A i \in 1..Len(value) : value[i] \notin (ObsTextTokens \cup CtlTokens)
    THEN Some(value)
    ELSE None

\* HeaderValue::from_str / HeaderValue::from_bytes: bytes 32..255 except 127
HeaderValueFrom(bytes) ==
    IF \A i \in 1..Len(bytes) : bytes[i] \notin CtlTokens
    THEN Some(bytes)
    ELSE None

\* HeaderName::from_bytes: a non-empty token
HeaderNameFrom(name) ==
    IF name # "" THEN Some(name) ELSE None

\* reqwest::Method::from_str: any non-empty token is a method
MethodFromStr(m) ==
    IF m # "" THEN Some(m) ELSE None

(* ----------------------------- HeaderMap ------------------------------- *)

\* A HeaderMap is a sequence of <<name, value>> entries.
RECURSIVE Without(_, _)
Without(h, name) ==
    IF h = <<>> THEN <<>>
    ELSE IF Head(h)[1] = name THEN Without(Tail(h), name)
         ELSE <<Head(h)>> \o Without(Tail(h), name)

\* HeaderMap::insert: the entry replaces every entry of that name
Insert(h, name, value) == Append(Without(h, name), <<name, value>>)

\* Builder::header: the entry is appended
AppendHeader(h, name, value) == Append(h, <<name, value>>)

HasHeader(h, name) == \E i \in 1..Len(h) : h[i][1] = name

\* HeaderMap::get: the first value of that name
Get(h, name) ==
    IF HasHeader(h, name)
    THEN Some(h[CHOOSE i \in 1..Len(h) :
                  /\ h[i][1] = name
                  /\ \A k \in 1..(i - 1) : h[k][1] # name][2])
    ELSE None

\* the bytes of a sequence of chunks, in order (Response::bytes)
RECURSIVE Concat(_)
Concat(chunks) ==
    IF chunks = <<>> THEN <<>> ELSE Head(chunks) \o Concat(Tail(chunks))

\* every sequence over S of length at most n
SeqUpTo(S, n) == UNION {[1..k -> S] : k \in 0..n}

(* --------------------------- request inputs ---------------------------- *)

\* provider names a route can carry: the three of the base_url match, the
\* Bedrock provider's name, and a name nothing knows
Providers == {"openai", "anthropic", "groq", "bedrock", "mistral"}

Methods == {"POST", "GET"}

Paths == {<<"/v1/chat/completions">>}

\* Uri::query
Queries == {None, Some(<<"stream=true">>)}

ApiKeyValues == {<<"sk-gw">>, <<"sk-", "<0xE9>">>}
AuthorizationValues == {<<"Bearer ", "sk-up">>, <<"Bearer ", "<0xE9>">>}

\* the inbound header maps: each credential header absent, text or not text
InboundHeaders ==
    { k \o a :
        k \in {<<>>} \cup {<< <<"x-magicapi-api-key", v>> >> : v \in ApiKeyValues},
        a \in {<<>>} \cup {<< <<"authorization", v>> >> : v \in AuthorizationValues} }

\* an inbound request; body_ok: whether the inbound body can be read in full
Requests ==
    [method : Methods, path : Paths, query : Queries,
     headers : InboundHeaders, body_ok : BOOLEAN]

(* -------------------------- upstream responses ------------------------- *)

Statuses == {200, 404, 503}

ContentTypes ==
    { <<"application/json">>,
      <<"text/event-stream">>,
      <<"text/event-stream", "; charset=utf-8">>,
      <<"text/event-stream", "; name=", "<0xE9>">> }

UpstreamHeaders ==
    { c \o x :
        c \in {<<>>} \cup {<< <<"content-type", v>> >> : v \in ContentTypes},
        x \in {<<>>, << <<"x-request-id", <<"req-1">>>> >>} }

\* a chunk is a run of bytes
Chunks == {<<"a">>, <<"b">>}

\* what the upstream sends: status, headers, the chunks of the body, and
\* whether reading the body fails once those chunks have been read
UpstreamResponses ==
    [status : Statuses, headers : UpstreamHeaders,
     chunks : SeqUpTo(Chunks, MaxChunks), fails : BOOLEAN]

(* ------------------------------- state --------------------------------- *)

VARIABLES
    provider,          \* the provider argument of proxy_request_to_provider
    original_request,  \* the inbound request
    pc,                \* where proxy_request_to_provider (or the body stream) is
    base_url,          \* None before the match of line 40, then Some(origin)
    url,               \* the outbound URL
    method,            \* the outbound method
    reqwest_headers,   \* the outbound header map
    outbound_calls,    \* how often this request called send()
    response,          \* the upstream response, None before send() returned one
    status,            \* the status converted at line 142
    kind,              \* "None", then "Streaming" or "Buffered"
    response_headers,  \* the header map copied from the upstream response
    up_pos,            \* how many items the relay has pulled from the upstream body
    pending,           \* a chunk pulled from upstream and not yet written to the caller
    body,              \* the bytes Response::bytes has read so far (buffered)
    delivered,         \* the chunks written to the caller, in order (streaming)
    stream_state,      \* "none", "open", "eof" or "error": the caller's body stream
    caller,            \* the Response returned to the caller, None before there is one
    result,            \* Pending, Err(e) or OkResponse: what the function returned
    last,              \* the provider and base_url of the request before this one
    request_body,      \* the JSON body handed to BedrockProvider::prepare_request_body
    prepared,          \* Pending, then what prepare_request_body returned
    bedrock_path,      \* the path handed to BedrockProvider::transform_path
    transformed_path,  \* None, then Some(what transform_path returned)
    bedrock_headers,   \* the header map handed to process_headers and
                       \* get_signing_credentials
    final_headers,     \* None, then Some(what process_headers returned)
    credentials        \* Pending, then what get_signing_credentials returned

reqVars == <<provider, original_request>>
prepVars == <<base_url, url, method, reqwest_headers>>
upVars == <<response, status, kind, response_headers>>
relayVars == <<up_pos, pending, body, delivered, stream_state, caller>>
proxyVars == <<reqVars, prepVars, upVars, relayVars, pc, outbound_calls, result, last>>
pathVars == <<bedrock_path, transformed_path>>
headerVars == <<bedrock_headers, final_headers, credentials>>
bedrockVars == <<request_body, prepared, pathVars, headerVars>>
vars == <<proxyVars, bedrockVars>>

\* no request is at hand
ProxyIdle ==
    /\ provider = ""
    /\ original_request = None
    /\ last = None
    /\ pc = "idle"
    /\ base_url = None
    /\ url = <<>>
    /\ method = None
    /\ reqwest_headers = <<>>
    /\ outbound_calls = 0
    /\ response = None
    /\ status = None
    /\ kind = "None"
    /\ response_headers = <<>>
    /\ up_pos = 0
    /\ pending = None
    /\ body = <<>>
    /\ delivered = <<>>
    /\ stream_state = "none"
    /\ caller = None
    /\ result = Pending

\* no path is at hand
NoPath ==
    /\ bedrock_path = None
    /\ transformed_path = None

\* no header map is at hand
NoHeaders ==
    /\ bedrock_headers = None
    /\ final_headers = None
    /\ credentials = Pending

Init ==
    /\ ProxyIdle
    /\ request_body = None
    /\ prepared = Pending
    /\ NoPath
    /\ NoHeaders

\* a request arrives and proxy_request_to_provider is called with it
Receive ==
    /\ pc = "idle"
    /\ provider' \in Providers
    /\ original_request' \in Requests
    /\ pc' = "resolve"
    /\ UNCHANGED <<prepVars, upVars, relayVars, outbound_calls, result, last, bedrockVars>>

(* ------------------ proxy_request_to_provider, to send() ---------------- *)

\* a slip: a name the match does not know falls through to the first origin
BaseUrlOf_Fallthrough(name) ==
    CASE name = "anthropic" -> Some(<<"https://api.anthropic.com">>)
      [] name = "groq" -> Some(<<"https://api.groq.com/openai">>)
      [] OTHER -> Some(<<"https://api.openai.com">>)

\* the match of lines 40-48
BaseUrlOf(name) ==
    CASE name = "openai" -> Some(<<"https://api.openai.com">>)
      [] name = "anthropic" -> Some(<<"https://api.anthropic.com">>)
      [] name = "groq" -> Some(<<"https://api.groq.com/openai">>)
      [] OTHER -> None

\* lines 50-57: format!("{}{}{}", base_url, path, query)
UrlOf(base, req) ==
    base \o req.path \o (IF req.query.some THEN <<"?">> \o req.query.v ELSE <<>>)

\* a return through `?` or `return Err(..)`: the call is over
Fail(e) ==
    /\ result' = Err(e)
    /\ pc' = "done"

Resolve ==
    /\ pc = "resolve"
    /\ base_url' = BaseUrlOf(provider)
    /\ IF base_url'.some
       THEN /\ url' = UrlOf(base_url'.v, original_request)
            /\ pc' = "method"
            /\ UNCHANGED result
       ELSE /\ Fail("UnsupportedProvider")
            /\ UNCHANGED url
    /\ UNCHANGED <<reqVars, method, reqwest_headers, upVars, relayVars,
                   outbound_calls, last, bedrockVars>>

\* lines 65-73
ParseMethod ==
    /\ pc = "method"
    /\ LET m == MethodFromStr(original_request.method) IN
       IF m.some
       THEN /\ method' = m
            /\ reqwest_headers' =
                   Insert(<<>>, "content-type", <<"application/json">>)
            /\ pc' = "headers"
            /\ UNCHANGED result
       ELSE /\ Fail("InvalidMethod")
            /\ UNCHANGED <<method, reqwest_headers>>
    /\ UNCHANGED <<reqVars, base_url, url, upVars, relayVars, outbound_calls, last, bedrockVars>>

\* headers.get(name).and_then(|h| h.to_str().ok())
GetStr(h, name) ==
    LET got == Get(h, name) IN
    IF got.some THEN ToStr(got.v) ELSE None

\* insert AUTHORIZATION built from `text`, or InvalidHeader
WithAuthorization(out, text) ==
    LET hv == HeaderValueFrom(text) IN
    IF hv.some
    THEN [tag |-> "Ok", headers |-> Insert(out, "authorization", hv.v)]
    ELSE Err("InvalidHeader")

\* lines 77-105
OpenAiHeaders(inbound, out) ==
    LET api_key == GetStr(inbound, "x-magicapi-api-key")
        auth == GetStr(inbound, "authorization")
    IN  IF api_key.some THEN WithAuthorization(out, <<"Bearer ">> \o api_key.v)
        ELSE IF auth.some THEN WithAuthorization(out, auth.v)
        ELSE Err("MissingApiKey")

\* lines 106-123
GroqHeaders(inbound, out) ==
    LET auth == GetStr(inbound, "authorization")
    IN  IF auth.some THEN WithAuthorization(out, auth.v)
        ELSE Err("MissingApiKey")

\* the match of lines 76-125
ProviderHeaders(name, inbound, out) ==
    CASE name = "openai" -> OpenAiHeaders(inbound, out)
      [] name = "groq" -> GroqHeaders(inbound, out)
      [] OTHER -> Err("UnsupportedProvider")

\* a slip: the error of the header match is kept but the call goes on
Authenticate_GoesOn ==
    /\ pc = "headers"
    /\ LET r == ProviderHeaders(provider, original_request.headers, reqwest_headers) IN
       IF r.tag = "Ok"
       THEN /\ reqwest_headers' = r.headers
            /\ UNCHANGED result
       ELSE /\ result' = Err(r.error)
            /\ UNCHANGED reqwest_headers
    /\ pc' = "body"
    /\ UNCHANGED <<reqVars, base_url, url, method, upVars, relayVars,
                   outbound_calls, last, bedrockVars>>

Authenticate ==
    /\ pc = "headers"
    /\ LET r == ProviderHeaders(provider, original_request.headers, reqwest_headers) IN
       IF r.tag = "Ok"
       THEN /\ reqwest_headers' = r.headers
            /\ pc' = "body"
            /\ UNCHANGED result
       ELSE /\ Fail(r.error)
            /\ UNCHANGED reqwest_headers
    /\ UNCHANGED <<reqVars, base_url, url, method, upVars, relayVars,
                   outbound_calls, last, bedrockVars>>

\* line 129: body::to_bytes(original_request.into_body(), ..).await?
\* into_body consumes the request
ReadBody ==
    /\ pc = "body"
    /\ IF original_request.body_ok
       THEN /\ pc' = "send"
            /\ UNCHANGED result
       ELSE Fail("BodyRead")
    /\ original_request' = None
    /\ UNCHANGED <<provider, prepVars, upVars, relayVars, outbound_calls, last, bedrockVars>>

\* a slip: a failed send() is tried again
SendFailed_Retry == [pc |-> "send", result |-> Pending]

\* lines 138-141: a failed send() leaves through `?`
SendFailed == [pc |-> "done", result |-> Err("Network")]

\* lines 132-141: the outbound call; method, url and reqwest_headers move into
\* it; it fails or returns a response
Send ==
    /\ pc = "send"
    /\ outbound_calls' = outbound_calls + 1
    /\ url' = <<>>
    /\ method' = None
    /\ reqwest_headers' = <<>>
    /\ \/ /\ pc' = SendFailed.pc
          /\ result' = SendFailed.result
          /\ UNCHANGED response
       \/ /\ response' \in {Some(r) : r \in UpstreamResponses}
          /\ pc' = "classify"
          /\ UNCHANGED result
    /\ UNCHANGED <<reqVars, base_url, status, kind, response_headers, relayVars, last, bedrockVars>>

(* ---------------------- classification and relay ----------------------- *)

\* line 142: StatusCode::from_u16
StatusFromU16(n) ==
    IF 100 <= n /\ n < 1000 THEN Some(n) ELSE None

\* a slip: the Content-Type is compared, not searched
IsEventStream_Equals(headers) ==
    LET ct == GetStr(headers, "content-type") IN
    ct.some /\ ct.v = <<"text/event-stream">>

\* lines 146-149: the first Content-Type, when it is text, holds text/event-stream
IsEventStream(headers) ==
    LET ct == GetStr(headers, "content-type") IN
    ct.some /\ Contains(ct.v, <<"text/event-stream">>)

\* lines 154-164 and 194-204: the loop of the header copy, from the map built so
\* far; an entry whose name or value does not convert is skipped
RECURSIVE CopyInto(_, _)
CopyInto(copied, headers) ==
    IF headers = <<>> THEN copied
    ELSE LET name == HeaderNameFrom(Head(headers)[1])
             v == HeaderValueFrom(Head(headers)[2])
         IN  IF v.some /\ name.some
             THEN CopyInto(Insert(copied, name.v, v.v), Tail(headers))
             ELSE CopyInto(copied, Tail(headers))

\* lines 153-164 and 193-204: the header copy into a new map
CopyHeaders(headers) == CopyInto(<<>>, headers)

\* a slip: the streaming branch answers 200 whatever the upstream said
StreamingResponse_Always200(st, copied) ==
    [status |-> 200,
     headers |-> AppendHeader(AppendHeader(AppendHeader(<<>>,
                     "content-type", <<"text/event-stream">>),
                     "cache-control", <<"no-cache">>),
                     "connection", <<"keep-alive">>),
     extensions |-> copied,
     body |-> "stream"]

\* lines 183-190: the response of the streaming branch
StreamingResponse(st, copied) ==
    [status |-> st,
     headers |-> AppendHeader(AppendHeader(AppendHeader(<<>>,
                     "content-type", <<"text/event-stream">>),
                     "cache-control", <<"no-cache">>),
                     "connection", <<"keep-alive">>),
     extensions |-> copied,
     body |-> "stream"]

RECURSIVE AddHeaders(_, _)
AddHeaders(builder, copied) ==
    IF copied = <<>> THEN builder
    ELSE AddHeaders(AppendHeader(builder, Head(copied)[1], Head(copied)[2]),
                    Tail(copied))

\* lines 209-218: the response of the buffered branch
BufferedResponse(st, copied, bytes) ==
    [status |-> st,
     headers |-> AddHeaders(<<>>, copied),
     extensions |-> <<>>,
     body |-> bytes]

\* lines 142-204: convert the status, classify, copy the headers; the streaming
\* branch returns its response here, the buffered branch goes on to read the body
Classify ==
    /\ pc = "classify"
    /\ LET st == StatusFromU16(response.v.status) IN
       IF ~st.some
       THEN /\ Fail("InvalidStatusCode")
            /\ UNCHANGED <<status, kind, response_headers, stream_state, caller>>
       ELSE /\ status' = st
            /\ response_headers' = CopyHeaders(response.v.headers)
            /\ IF IsEventStream(response.v.headers)
               THEN /\ kind' = "Streaming"
                    /\ caller' = Some(StreamingResponse(st.v, response_headers'))
                    /\ stream_state' = "open"
                    /\ result' = OkResponse
                    /\ pc' = "streaming"
               ELSE /\ kind' = "Buffered"
                    /\ pc' = "buffered"
                    /\ UNCHANGED <<caller, stream_state, result>>
    /\ UNCHANGED <<reqVars, prepVars, response, up_pos, pending, body, delivered,
                   outbound_calls, last, bedrockVars>>

\* Response::bytes (line 207) reads the upstream body chunk by chunk
BufferedRead ==
    /\ pc = "buffered"
    /\ up_pos < Len(response.v.chunks)
    /\ up_pos' = up_pos + 1
    /\ body' = body \o response.v.chunks[up_pos + 1]
    /\ UNCHANGED <<reqVars, prepVars, upVars, pending, delivered, stream_state,
                   caller, pc, outbound_calls, result, last, bedrockVars>>

\* lines 207-218: the read failed (`?`), or the body is complete and the
\* response is built from it
BufferedFinish ==
    /\ pc = "buffered"
    /\ up_pos = Len(response.v.chunks)
    /\ IF response.v.fails
       THEN /\ Fail("Network")
            /\ UNCHANGED caller
       ELSE /\ caller' = Some(BufferedResponse(status.v, response_headers, body))
            /\ result' = OkResponse
            /\ pc' = "done"
    /\ UNCHANGED <<reqVars, prepVars, upVars, up_pos, pending, body, delivered,
                   stream_state, outbound_calls, last, bedrockVars>>

\* Response::bytes_stream: item i of the upstream body; None when it has ended
UpstreamItem(r, i) ==
    IF i <= Len(r.chunks) THEN Some([ok |-> TRUE, bytes |-> r.chunks[i]])
    ELSE IF i = Len(r.chunks) + 1 /\ r.fails THEN Some([ok |-> FALSE])
    ELSE None

\* a slip: a read error is turned into a closing event
MapItem_Marker(item) ==
    IF item.ok THEN [ok |-> TRUE, bytes |-> item.bytes]
    ELSE [ok |-> TRUE, bytes |-> <<"[DONE]">>]

\* lines 169-180: the closure mapped over the upstream stream
MapItem(item) ==
    IF item.ok THEN [ok |-> TRUE, bytes |-> item.bytes]
    ELSE [ok |-> FALSE]

\* a slip: the upstream is read on while a frame waits to be written
StreamPoll_Eager ==
    /\ pc = "streaming"
    /\ LET item == UpstreamItem(response.v, up_pos + 1) IN
       IF item.some
       THEN /\ up_pos' = up_pos + 1
            /\ LET mapped == MapItem(item.v) IN
               IF mapped.ok
               THEN /\ pending' = Some(mapped.bytes)
                    /\ UNCHANGED <<stream_state, pc>>
               ELSE /\ stream_state' = "error"
                    /\ pc' = "done"
                    /\ UNCHANGED pending
       ELSE /\ stream_state' = "eof"
            /\ pc' = "done"
            /\ UNCHANGED <<up_pos, pending>>
    /\ UNCHANGED <<reqVars, prepVars, upVars, body, delivered, caller,
                   outbound_calls, result, last, bedrockVars>>

\* Body::from_stream (line 189): the body is polled for its next frame only
\* when the frame before it has been written
StreamPoll ==
    /\ pc = "streaming"
    /\ pending = None
    /\ LET item == UpstreamItem(response.v, up_pos + 1) IN
       IF item.some
       THEN /\ up_pos' = up_pos + 1
            /\ LET mapped == MapItem(item.v) IN
               IF mapped.ok
               THEN /\ pending' = Some(mapped.bytes)
                    /\ UNCHANGED <<stream_state, pc>>
               ELSE /\ stream_state' = "error"
                    /\ pc' = "done"
                    /\ UNCHANGED pending
       ELSE /\ stream_state' = "eof"
            /\ pc' = "done"
            /\ UNCHANGED <<up_pos, pending>>
    /\ UNCHANGED <<reqVars, prepVars, upVars, body, delivered, caller,
                   outbound_calls, result, last, bedrockVars>>

\* a slip: the frame goes in front of what was written
WriteFrame_InFront(written, frame) == <<frame>> \o written

\* the frame is written to the caller as it is
WriteFrame(written, frame) == Append(written, frame)

StreamWrite ==
    /\ pc = "streaming"
    /\ pending.some
    /\ delivered' = WriteFrame(delivered, pending.v)
    /\ pending' = None
    /\ UNCHANGED <<reqVars, prepVars, upVars, up_pos, body, stream_state, caller,
                   pc, outbound_calls, result, last, bedrockVars>>

\* the call and its response are over: everything request-scoped is dropped
Discard ==
    /\ pc = "done"
    /\ last' = Some([provider |-> provider, base_url |-> base_url])
    /\ provider' = ""
    /\ original_request' = None
    /\ pc' = "idle"
    /\ base_url' = None
    /\ url' = <<>>
    /\ method' = None
    /\ reqwest_headers' = <<>>
    /\ outbound_calls' = 0
    /\ response' = None
    /\ status' = None
    /\ kind' = "None"
    /\ response_headers' = <<>>
    /\ up_pos' = 0
    /\ pending' = None
    /\ body' = <<>>
    /\ delivered' = <<>>
    /\ stream_state' = "none"
    /\ caller' = None
    /\ result' = Pending
    /\ UNCHANGED bedrockVars

Next ==
    \/ Receive
    \/ Resolve
    \/ ParseMethod
    \/ Authenticate
    \/ ReadBody
    \/ Send
    \/ Classify
    \/ BufferedRead
    \/ BufferedFinish
    \/ StreamPoll
    \/ StreamWrite
    \/ Discard

Spec == Init /\ [][Next]_vars

(* ------------------------- serde_json::Value --------------------------- *)

\* A number is kept as ten times its value, with whether it was written as a
\* float; an object is a function from its keys. Each type keeps its payload
\* in a field of its own.
Null == [t |-> "null"]
Str(s) == [t |-> "string", s |-> s]
U64(n) == [t |-> "number", float |-> FALSE, x10 |-> 10 * n]
I64(n) == [t |-> "number", float |-> FALSE, x10 |-> 10 * n]
F64(tenths) == [t |-> "number", float |-> TRUE, x10 |-> tenths]
Array(a) == [t |-> "array", a |-> a]
Object(f) == [t |-> "object", o |-> f]

\* value[key]: Null unless value is an object that has the key
Index(value, key) ==
    IF value.t = "object" /\ key \in DOMAIN value.o THEN value.o[key] ELSE Null

AsArray(value) == IF value.t = "array" THEN Some(value.a) ELSE None
AsStr(value) == IF value.t = "string" THEN Some(value.s) ELSE None
\* as_u64: an integer that is not negative
AsU64(value) ==
    IF value.t = "number" /\ ~value.float /\ value.x10 >= 0
    THEN Some(value.x10 \div 10)
    ELSE None
\* as_f64: any number, in tenths
AsF64(value) == IF value.t = "number" THEN Some(value.x10) ELSE None

UnwrapOr(opt, default) == IF opt.some THEN opt.v ELSE default

(* ------------------------- Bedrock request bodies ---------------------- *)

\* most messages of a body
MaxMessages == 2

\* a key the object does not have
Absent == [t |-> "absent"]

\* a function without the keys it maps to Absent
Present(f) == [k \in {x \in DOMAIN f : f[x] # Absent} |-> f[k]]

MessageValues ==
    { Object(Present(m)) :
        m \in { [role |-> Str(<<"system">>), content |-> Str(<<"be terse">>)],
                [role |-> Str(<<"assistant">>), content |-> Str(<<"hello">>)],
                [role |-> Str(<<"user">>), content |-> Str(<<"hi">>)],
                [role |-> Absent, content |-> Str(<<"hey">>)],
                [role |-> Str(<<"user">>), content |-> Array(<<Str(<<"hi">>)>>)],
                [role |-> Str(<<"tool">>), content |-> Absent] } }

MessagesValues ==
    {Absent, Str(<<"hi">>)}
        \cup {Array(a) : a \in SeqUpTo(MessageValues, MaxMessages)}

ModelValues ==
    { Absent,
      Str(<<"amazon.", "titan", "-text-premier-v1:0">>),
      Str(<<"anthropic", ".claude-v2">>),
      Str(<<"meta.llama3-8b">>),
      Str(<<"anthropic", ".", "titan", "-mix">>),
      U64(7) }

MaxTokensValues == {Absent, U64(50), I64(-5), F64(505), Str(<<"50">>)}
TemperatureValues == {Absent, F64(2), U64(1), Str(<<"hot">>)}
TopPValues == {Absent, F64(9), Str(<<"0.9">>)}
TopKValues == {Absent, U64(40), Str(<<"40">>)}

(* ------------------ BedrockProvider (src/providers/bedrock.rs) --------- *)

OkValue(value) == [tag |-> "Ok", value |-> value]

\* a slip: the Titan branch reads the first message
TitanInputText_First(messages) ==
    LET content == IF messages = <<>> THEN None
                   ELSE AsStr(Index(messages[1], "content"))
    IN  UnwrapOr(content, <<>>)

\* lines 51-53: messages.last().and_then(|msg| msg["content"].as_str()).unwrap_or("")
TitanInputText(messages) ==
    LET content == IF messages = <<>> THEN None
                   ELSE AsStr(Index(messages[Len(messages)], "content"))
    IN  UnwrapOr(content, <<>>)

\* lines 50-65
TitanBody(bdy, messages) ==
    Object([inputText |-> Str(TitanInputText(messages)),
            textGenerationConfig |-> Object(
                [maxTokenCount |-> U64(UnwrapOr(AsU64(Index(bdy, "max_tokens")), 1000)),
                 temperature |-> F64(UnwrapOr(AsF64(Index(bdy, "temperature")), 7)),
                 topP |-> F64(UnwrapOr(AsF64(Index(bdy, "top_p")), 10)),
                 stopSequences |-> Array(<<>>)])])

\* a slip: every message is given the Human marker
PromptSegment_AllHuman(msg) ==
    <<"\n\nHuman: ">> \o UnwrapOr(AsStr(Index(msg, "content")), <<>>)

\* lines 69-77: one message as a segment of the prompt
PromptSegment(msg) ==
    LET role == UnwrapOr(AsStr(Index(msg, "role")), <<"user">>)
        content == UnwrapOr(AsStr(Index(msg, "content")), <<>>)
    IN  CASE role = <<"system">> -> <<"\n\nSystem: ">> \o content
          [] role = <<"assistant">> -> <<"\n\nAssistant: ">> \o content
          [] OTHER -> <<"\n\nHuman: ">> \o content

\* lines 68-78: .map(..).collect::<String>()
RECURSIVE Prompt(_)
Prompt(messages) ==
    IF messages = <<>> THEN <<>>
    ELSE PromptSegment(Head(messages)) \o Prompt(Tail(messages))

\* lines 66-88
AnthropicBody(bdy, messages) ==
    Object([prompt |-> Str(Prompt(messages)),
            max_tokens_to_sample |-> U64(UnwrapOr(AsU64(Index(bdy, "max_tokens")), 1000)),
            temperature |-> F64(UnwrapOr(AsF64(Index(bdy, "temperature")), 7)),
            top_p |-> F64(UnwrapOr(AsF64(Index(bdy, "top_p")), 10)),
            top_k |-> U64(UnwrapOr(AsU64(Index(bdy, "top_k")), 250)),
            stop_sequences |-> Array(<<Str(<<"\n\nHuman:">>), Str(<<"\n\nAssistant:">>)>>)])

\* a slip: the model is looked at before the messages
transform_request_body_ModelFirst(bdy) ==
    LET messages == AsArray(Index(bdy, "messages"))
        model == UnwrapOr(AsStr(Index(bdy, "model")),
                          <<"amazon.", "titan", "-text-premier-v1:0">>)
    IN  IF ~(Contains(model, <<"titan">>) \/ Contains(model, <<"anthropic">>))
        THEN Err("UnsupportedModel")
        ELSE IF ~messages.some THEN Err("InvalidRequestFormat")
        ELSE IF Contains(model, <<"titan">>) THEN OkValue(TitanBody(bdy, messages.v))
        ELSE OkValue(AnthropicBody(bdy, messages.v))

\* a slip: a model of neither family is sent as a Titan body
transform_request_body_TitanElse(bdy) ==
    LET messages == AsArray(Index(bdy, "messages")) IN
    IF ~messages.some THEN Err("InvalidRequestFormat")
    ELSE LET model == UnwrapOr(AsStr(Index(bdy, "model")),
                               <<"amazon.", "titan", "-text-premier-v1:0">>)
         IN  IF Contains(model, <<"anthropic">>) /\ ~Contains(model, <<"titan">>)
             THEN OkValue(AnthropicBody(bdy, messages.v))
             ELSE OkValue(TitanBody(bdy, messages.v))

\* lines 34-97
transform_request_body(bdy) ==
    LET messages == AsArray(Index(bdy, "messages")) IN
    IF ~messages.some THEN Err("InvalidRequestFormat")
    ELSE LET model == UnwrapOr(AsStr(Index(bdy, "model")),
                               <<"amazon.", "titan", "-text-premier-v1:0">>)
         IN  IF Contains(model, <<"titan">>) THEN OkValue(TitanBody(bdy, messages.v))
             ELSE IF Contains(model, <<"anthropic">>)
                  THEN OkValue(AnthropicBody(bdy, messages.v))
             ELSE Err("UnsupportedModel")

\* lines 110-120: the body has been parsed (line 111); transform it
prepare_request_body ==
    /\ prepared = Pending
    /\ request_body # None
    /\ prepared' = transform_request_body(request_body)
    /\ UNCHANGED <<proxyVars, request_body, pathVars, headerVars>>

\* prepare_request_body is handed a caller-facing JSON chat body, or JSON that
\* is no object
BedrockInit ==
    /\ ProxyIdle
    /\ request_body \in
           { Object(Present(b)) :
               b \in [ model : ModelValues,
                       messages : MessagesValues,
                       max_tokens : MaxTokensValues,
                       temperature : TemperatureValues,
                       top_p : TopPValues,
                       top_k : TopKValues ] }
           \cup {Array(<<>>), Str(<<"hi">>)}
    /\ prepared = Pending
    /\ NoPath
    /\ NoHeaders

BedrockNext == prepare_request_body

BedrockSpec == BedrockInit /\ [][BedrockNext]_vars

(* --------------------- BedrockProvider: the path ----------------------- *)

\* lines 16-24: BedrockProvider::new
BedrockProvider ==
    [ base_url |-> <<"https://bedrock-runtime.", "us-east-1", ".amazonaws.com">>,
      region |-> <<"us-east-1">> ]

\* the paths a Bedrock route can carry, "/" a token of its own: a chat path,
\* paths that end in a model name, a path that ends in "/", the root path, a
\* chat path with a model name behind it, and a path that names no model
BedrockPaths ==
    { <<"/", "v1", "/", "chat", "/", "completions">>,
      <<"/", "model", "/", "anthropic", ".claude-v2">>,
      <<"/", "model", "/", "amazon.", "titan", "-text-lite-v1">>,
      <<"/", "model", "/", "meta.llama3-8b">>,
      <<"/", "model", "/">>,
      <<"/">>,
      <<"/", "v1", "/", "chat", "/", "completions", "/", "anthropic", ".claude-v2">>,
      <<"/", "v1", "/", "embeddings">> }

\* path.split('/').last(): what follows the last "/"; split yields at least
\* one piece, so there is always a last one
SplitLast(path) ==
    LET slashes == {i \in 1..Len(path) : path[i] = "/"} IN
    IF slashes = {} THEN Some(path)
    ELSE LET at == CHOOSE i \in slashes : \A k \in slashes : k <= i IN
         Some(SubSeq(path, at + 1, Len(path)))

\* lines 141-154
transform_path(path) ==
    LET last_piece == SplitLast(path)
        model == IF Contains(path, <<"chat", "/", "completions">>)
                 THEN <<"amazon.", "titan", "-text-premier-v1:0">>
                 ELSE IF last_piece.some THEN last_piece.v
                 ELSE <<"amazon.", "titan", "-text-premier-v1:0">>
    IN  <<"/model/">> \o model \o <<"/invoke">>

TransformPath ==
    /\ bedrock_path # None
    /\ transformed_path = None
    /\ transformed_path' = Some(transform_path(bedrock_path.v))
    /\ UNCHANGED <<proxyVars, request_body, prepared, bedrock_path, headerVars>>

\* a Bedrock request: its path and its parsed body
RouteInit ==
    /\ ProxyIdle
    /\ NoHeaders
    /\ bedrock_path \in {Some(p) : p \in BedrockPaths}
    /\ transformed_path = None
    /\ request_body \in
           { Object(Present(b)) :
               b \in [ model : ModelValues, messages : MessagesValues ] }
    /\ prepared = Pending

RouteNext ==
    \/ TransformPath
    \/ prepare_request_body

RouteSpec == RouteInit /\ [][RouteNext]_vars

(* ------------- BedrockProvider: headers and signing credentials -------- *)

\* str::starts_with
StartsWith(s, prefix) ==
    /\ Len(prefix) <= Len(s)
    /\ \A i \in 1..Len(prefix) : s[i] = prefix[i]

\* the values a header of the header map at hand may have: none, one that is
\* text, one that is not, or (a header sent twice) two
OneOf(name, values) ==
    {<<>>} \cup {<< <<name, v>> >> : v \in values}

\* the inbound header maps of a Bedrock request, a header name a sequence of
\* tokens: the three signing headers, another x-aws- header sent once or twice,
\* and headers of other names
BedrockHeaders ==
    { a \o k \o r \o t \o d \o c :
        a \in OneOf(<<"x-aws-", "access-key-id">>,
                    {<<"AKIA1">>, <<"AKIA", "<0xE9>">>}),
        k \in OneOf(<<"x-aws-", "secret-access-key">>,
                    {<<"s3cr3t">>, <<"s3", "<0xE9>">>}),
        r \in OneOf(<<"x-aws-", "region">>,
                    {<<"us-east-1">>, <<"eu-west-1">>, <<"eu-", "<0xE9>">>}),
        t \in OneOf(<<"x-aws-", "session-token">>, {<<"tok-1">>})
                \cup { << <<<<"x-aws-", "session-token">>, <<"tok-1">>>>,
                          <<<<"x-aws-", "session-token">>, <<"tok-2">>>> >> },
        d \in OneOf(<<"x-amz-", "date">>, {<<"20240101T000000Z">>}),
        c \in OneOf(<<"content-type">>, {<<"text/plain">>}) }

\* lines 131-136: the loop over the inbound entries, in order
RECURSIVE PreserveAws(_, _)
PreserveAws(final, headers) ==
    IF headers = <<>> THEN final
    ELSE LET key == Head(headers)[1]
             value == Head(headers)[2]
         IN  PreserveAws(IF StartsWith(key, <<"x-aws-">>)
                         THEN Insert(final, key, value)
                         ELSE final,
                         Tail(headers))

\* lines 122-139
process_headers(headers) ==
    PreserveAws(Insert(<<>>, <<"content-type">>, <<"application/json">>), headers)

ProcessHeaders ==
    /\ bedrock_headers # None
    /\ final_headers = None
    /\ final_headers' = Some(process_headers(bedrock_headers.v))
    /\ UNCHANGED <<proxyVars, request_body, prepared, pathVars,
                   bedrock_headers, credentials>>

\* what get_signing_credentials returned
Returned(value) == [tag |-> "Returned", value |-> value]

\* a slip: the region is always the provider's
get_signing_credentials_OwnRegion(headers) ==
    LET access_key == GetStr(headers, <<"x-aws-", "access-key-id">>)
        secret_key == GetStr(headers, <<"x-aws-", "secret-access-key">>)
    IN  IF ~access_key.some \/ ~secret_key.some THEN None
        ELSE Some(<<access_key.v, secret_key.v, BedrockProvider.region>>)

\* lines 160-173
get_signing_credentials(headers) ==
    LET access_key == GetStr(headers, <<"x-aws-", "access-key-id">>)
        secret_key == GetStr(headers, <<"x-aws-", "secret-access-key">>)
        region == UnwrapOr(GetStr(headers, <<"x-aws-", "region">>),
                           BedrockProvider.region)
    IN  IF ~access_key.some THEN None
        ELSE IF ~secret_key.some THEN None
        ELSE Some(<<access_key.v, secret_key.v, region>>)

GetSigningCredentials ==
    /\ bedrock_headers # None
    /\ credentials = Pending
    /\ credentials' = Returned(get_signing_credentials(bedrock_headers.v))
    /\ UNCHANGED <<proxyVars, request_body, prepared, pathVars,
                   bedrock_headers, final_headers>>

\* lines 102-104
bedrock_base_url == BedrockProvider.base_url

\* lines 175-177
get_signing_host ==
    <<"bedrock-runtime.">> \o BedrockProvider.region \o <<".amazonaws.com">>

\* the header map of a Bedrock request
SigningInit ==
    /\ ProxyIdle
    /\ NoPath
    /\ request_body = None
    /\ prepared = Pending
    /\ bedrock_headers \in {Some(h) : h \in BedrockHeaders}
    /\ final_headers = None
    /\ credentials = Pending

SigningNext ==
    \/ ProcessHeaders
    \/ GetSigningCredentials

SigningSpec == SigningInit /\ [][SigningNext]_vars

(* ------------------------------ properties ----------------------------- *)

IsPrefix(a, b) ==
    /\ Len(a) <= Len(b)
    /\ \A i \in 1..Len(a) : a[i] = b[i]

\* the match of line 40 has run for the request at hand
Resolved == pc \notin {"idle", "resolve"}

\* C1: a provider name outside the registry (openai, anthropic, groq) is
\* rejected with UnsupportedProvider and no outbound call is made for it; a name
\* resolves on this request as it did on the request before.
C1_UnregisteredRejected ==
    /\ (Resolved /\ provider \notin {"openai", "anthropic", "groq"})
          => /\ result = Err("UnsupportedProvider")
             /\ pc = "done"
             /\ outbound_calls = 0
             /\ response = None
    /\ (Resolved /\ last.some /\ last.v.provider = provider)
          => last.v.base_url = base_url

C1_Witness ==
    /\ pc = "done"
    /\ provider = "mistral"
    /\ result = Err("UnsupportedProvider")
    /\ last.some
    /\ last.v.provider = "mistral"

LocalRejections ==
    {"UnsupportedProvider", "MissingApiKey", "InvalidMethod", "InvalidHeader",
     "InvalidRequestFormat", "UnsupportedModel"}

RejectedLocally == result.tag = "Err" /\ result.error \in LocalRejections

\* C2: when a request is rejected locally, no outbound call has been made for
\* it, and no step taken after the rejection makes one.
C2_RejectedBeforeSend ==
    /\ [](RejectedLocally => (outbound_calls = 0 /\ response = None))
    /\ [][RejectedLocally => outbound_calls' = 0]_vars

C2_Witness ==
    /\ pc = "done"
    /\ result = Err("MissingApiKey")
    /\ outbound_calls = 0

\* the Authenticate step has decided the request at hand
Authenticated ==
    \/ pc = "body"
    \/ /\ pc = "done"
       /\ result.tag = "Err"
       /\ result.error \in {"MissingApiKey", "InvalidHeader"}

\* C3 (as claimed): for openai and for groq, a readable x-magicapi-api-key is
\* sent upstream as the bearer credential whatever authorization says; without
\* it a readable authorization is passed through; the request is rejected with
\* MissingApiKey exactly when neither is there.
C3_EitherCredentialHeader ==
    (Authenticated /\ provider \in {"openai", "groq"}) =>
        LET api_key == GetStr(original_request.headers, "x-magicapi-api-key")
            auth == GetStr(original_request.headers, "authorization")
            out == Get(reqwest_headers, "authorization")
        IN  /\ api_key.some => (pc = "body" /\ out = Some(<<"Bearer ">> \o api_key.v))
            /\ (~api_key.some /\ auth.some) => (pc = "body" /\ out = auth)
            /\ (result = Err("MissingApiKey")) <=> (~api_key.some /\ ~auth.some)

\* the first Content-Type value of the upstream response, None without one
FirstContentType ==
    LET h == response.v.headers IN
    IF \E i \in 1..Len(h) : h[i][1] = "content-type"
    THEN Some(h[CHOOSE i \in 1..Len(h) :
                  /\ h[i][1] = "content-type"
                  /\ \A k \in 1..(i - 1) : h[k][1] # "content-type"][2])
    ELSE None

HoldsEventStream(value) == \E j \in 1..Len(value) : value[j] = "text/event-stream"

IsText(value) == \A j \in 1..Len(value) : value[j] \notin ObsTextTokens

\* a buffered response is built from the whole upstream body
BufferedInFull ==
    (kind = "Buffered" /\ caller.some) =>
        /\ up_pos = Len(response.v.chunks)
        /\ caller.v.body = Concat(response.v.chunks)

KindIsKept == [][(kind # "None" /\ pc' # "idle") => kind' = kind]_vars

\* C4 (as claimed): a classified response is Streaming exactly when the
\* Content-Type header holds text/event-stream, else Buffered and read in full
\* before the caller gets anything; the kind never changes.
C4_KindFromContentTypeBytes ==
    /\ [](kind # "None" =>
            /\ (kind = "Streaming") <=>
                   (FirstContentType.some /\ HoldsEventStream(FirstContentType.v))
            /\ kind \in {"Streaming", "Buffered"}
            /\ BufferedInFull)
    /\ KindIsKept

\* C4 (amended): a classified response is Streaming exactly when the
\* Content-Type header is readable as text and holds text/event-stream, else
\* (another, an unreadable or a missing content type) Buffered and read in full
\* before the caller gets anything; the kind never changes.
C4_KindFromContentType ==
    /\ [](kind # "None" =>
            /\ (kind = "Streaming") <=>
                   /\ FirstContentType.some
                   /\ IsText(FirstContentType.v)
                   /\ HoldsEventStream(FirstContentType.v)
            /\ kind \in {"Streaming", "Buffered"}
            /\ BufferedInFull)
    /\ KindIsKept

C4_Witness ==
    /\ kind = "Buffered"
    /\ caller.some
    /\ response.v.status = 200
    /\ FirstContentType.some
    /\ HoldsEventStream(FirstContentType.v)
    /\ Len(response.v.chunks) = 2

\* the chunks the relay has pulled from the upstream body so far
PulledChunks ==
    LET n == Len(response.v.chunks) IN
    SubSeq(response.v.chunks, 1, IF up_pos <= n THEN up_pos ELSE n)

\* C5: what a streaming response has delivered to the caller is at every
\* moment a prefix of the chunks pulled from upstream, chunk for chunk; when
\* the upstream ends without an error the caller has got exactly its chunks.
C5_DeliveredIsPrefix ==
    kind = "Streaming" =>
        /\ IsPrefix(delivered, PulledChunks)
        /\ (stream_state = "eof") => (delivered = response.v.chunks)

C5_Witness ==
    /\ stream_state = "eof"
    /\ Len(delivered) = 3
    /\ delivered[1] # delivered[2]

C7_StreamingHeadersCopied ==
    (kind = "Streaming" /\ caller.some) =>
        LET h == caller.v.headers
            forced == {"content-type", "cache-control", "connection"}
        IN  /\ Get(h, "content-type") = Some(<<"text/event-stream">>)
            /\ Get(h, "cache-control") = Some(<<"no-cache">>)
            /\ Get(h, "connection") = Some(<<"keep-alive">>)
            /\ \A i \in 1..Len(response.v.headers) :
                   response.v.headers[i][1] \notin forced =>
                       \E k \in 1..Len(h) : h[k] = response.v.headers[i]

\* the relay has pulled the read error of the upstream body
ReadErrorPulled ==
    /\ kind = "Streaming"
    /\ response.v.fails
    /\ up_pos > Len(response.v.chunks)

\* C8: once a streaming relay has pulled a read error, the stream is over
\* with that error: the caller holds exactly the chunks read before it, nothing
\* waits to be written, the upstream is not read again, and no step adds to
\* what the caller holds.
C8_ReadErrorIsFatal ==
    /\ [](ReadErrorPulled =>
            /\ stream_state = "error"
            /\ pc = "done"
            /\ pending = None
            /\ up_pos = Len(response.v.chunks) + 1
            /\ delivered = response.v.chunks)
    /\ [][(ReadErrorPulled /\ pc' # "idle") => delivered' = delivered]_vars

C8_Witness ==
    /\ ReadErrorPulled
    /\ stream_state = "error"
    /\ Len(delivered) = 2

\* C9: a request makes at most one outbound call; a call that failed ends the
\* request with the error, a call that returned is not made again.
C9_AtMostOneCall ==
    /\ outbound_calls <= 1
    /\ outbound_calls = 1 => pc \in {"classify", "buffered", "streaming", "done"}
    /\ result = Err("Network") => pc = "done"

C9_Witness ==
    /\ result = Err("Network")
    /\ outbound_calls = 1
    /\ response = None

(* ------------------------ properties of BedrockSpec --------------------- *)

\* the body at hand has a messages array and a model name that holds "titan"
TitanRequest ==
    /\ prepared # Pending
    /\ Index(request_body, "messages").t = "array"
    /\ Index(request_body, "model").t = "string"
    /\ \E i \in 1..Len(Index(request_body, "model").s) :
           Index(request_body, "model").s[i] = "titan"

\* the caller's number under `key` when it has the type `float` asks for (a
\* number; for an integer field an integer that is not negative), else the
\* default; in tenths
CallerOrDefault(key, float, default) ==
    LET given == Index(request_body, key) IN
    IF given.t = "number" /\ (float \/ (~given.float /\ given.x10 >= 0))
    THEN given.x10
    ELSE default

\* the textGenerationConfig of a Titan body: four fields, the caller's values
\* or the defaults 1000, 0.7, 1.0
TitanConfigRight ==
    LET cfg == Index(prepared.value, "textGenerationConfig") IN
    /\ cfg.t = "object"
    /\ DOMAIN cfg.o = {"maxTokenCount", "temperature", "topP", "stopSequences"}
    /\ cfg.o.maxTokenCount.t = "number"
    /\ cfg.o.maxTokenCount.x10 = CallerOrDefault("max_tokens", FALSE, 10000)
    /\ cfg.o.temperature.t = "number"
    /\ cfg.o.temperature.x10 = CallerOrDefault("temperature", TRUE, 7)
    /\ cfg.o.topP.t = "number"
    /\ cfg.o.topP.x10 = CallerOrDefault("top_p", TRUE, 10)
    /\ cfg.o.stopSequences = Array(<<>>)

LastMessage ==
    LET m == Index(request_body, "messages").a IN m[Len(m)]

\* C10 (as claimed): a Titan request is transformed into an object whose
\* inputText is the content of the last message (when there is a last message
\* and it has a content) and whose textGenerationConfig has the four fields
\* with the caller's values or the defaults.
C10_TitanInputIsLastContent ==
    TitanRequest =>
        /\ prepared.tag = "Ok"
        /\ DOMAIN prepared.value.o = {"inputText", "textGenerationConfig"}
        /\ (/\ Index(request_body, "messages").a # <<>>
            /\ "content" \in DOMAIN LastMessage.o) =>
               Index(prepared.value, "inputText") = Index(LastMessage, "content")
        /\ TitanConfigRight

\* C10 (amended): a Titan request is transformed into an object whose inputText
\* is the content of the last message when that content is a string, and the
\* empty string when the array is empty or the last message has no string
\* content; its textGenerationConfig has the four fields with the caller's
\* values or the defaults.
C10_TitanBody ==
    TitanRequest =>
        /\ prepared.tag = "Ok"
        /\ DOMAIN prepared.value.o = {"inputText", "textGenerationConfig"}
        /\ Index(prepared.value, "inputText") =
               IF /\ Index(request_body, "messages").a # <<>>
                  /\ Index(LastMessage, "content").t = "string"
               THEN Index(LastMessage, "content")
               ELSE Str(<<>>)
        /\ TitanConfigRight

C10_Witness ==
    /\ TitanRequest
    /\ Len(Index(request_body, "messages").a) = 2
    /\ Index(LastMessage, "content") = Str(<<"hi">>)
    /\ Index(prepared.value, "inputText") = Str(<<"hi">>)
    /\ Index(request_body, "max_tokens") = U64(50)
    /\ "temperature" \notin DOMAIN request_body.o

\* the tokens of the model name of the body at hand, <<>> without a string model
ModelName ==
    IF Index(request_body, "model").t = "string"
    THEN Index(request_body, "model").s
    ELSE <<>>

Names(family) == \E i \in 1..Len(ModelName) : ModelName[i] = family

HasMessagesArray == Index(request_body, "messages").t = "array"

\* the body at hand has a messages array and a model name that holds "anthropic"
AnthropicRequest ==
    /\ prepared # Pending
    /\ HasMessagesArray
    /\ Names("anthropic")

\* the marker of a message's role
MarkerOf(msg) ==
    LET role == Index(msg, "role") IN
    IF role = Str(<<"system">>) THEN "\n\nSystem: "
    ELSE IF role = Str(<<"assistant">>) THEN "\n\nAssistant: "
    ELSE "\n\nHuman: "

\* the content of a message as it is, a string or not; nothing when the
\* message has none
ContentAsIs(msg) ==
    LET c == Index(msg, "content") IN
    IF c.t = "string" THEN c.s
    ELSE IF c.t \in {"absent", "null"} THEN <<>>
    ELSE <<c.t>>

\* the content of a message when it is a string, else nothing
ContentText(msg) ==
    LET c == Index(msg, "content") IN
    IF c.t = "string" THEN c.s ELSE <<>>

\* the segments of the messages, in order: the marker of each message and
\* then its content, as it is or only when it is a string
RECURSIVE Segments(_, _)
Segments(messages, asIs) ==
    IF messages = <<>> THEN <<>>
    ELSE LET msg == Head(messages) IN
         <<MarkerOf(msg)>>
             \o (IF asIs THEN ContentAsIs(msg) ELSE ContentText(msg))
             \o Segments(Tail(messages), asIs)

\* the sampling fields of an Anthropic body: the caller's values or the
\* defaults 1000, 0.7, 1.0, 250, and the two stop sequences
AnthropicFieldsRight ==
    LET out == prepared.value.o IN
    /\ DOMAIN out = {"prompt", "max_tokens_to_sample", "temperature", "top_p",
                     "top_k", "stop_sequences"}
    /\ out.max_tokens_to_sample.x10 = CallerOrDefault("max_tokens", FALSE, 10000)
    /\ out.temperature.x10 = CallerOrDefault("temperature", TRUE, 7)
    /\ out.top_p.x10 = CallerOrDefault("top_p", TRUE, 10)
    /\ out.top_k.x10 = CallerOrDefault("top_k", FALSE, 2500)
    /\ out.stop_sequences = Array(<<Str(<<"\n\nHuman:">>), Str(<<"\n\nAssistant:">>)>>)

\* C11 (as claimed): an Anthropic request is transformed into a body whose
\* prompt is, message by message and in order, the marker of the role followed
\* by the content of the message, with the sampling fields and stop sequences.
C11_PromptIsAllSegments ==
    (AnthropicRequest /\ ~Names("titan")) =>
        /\ prepared.tag = "Ok"
        /\ "prompt" \in DOMAIN prepared.value.o
        /\ prepared.value.o.prompt =
               Str(Segments(Index(request_body, "messages").a, TRUE))
        /\ AnthropicFieldsRight

\* C11 (amended): an Anthropic request whose model name does not also hold
\* "titan" is transformed into a body whose prompt is, message by message and
\* in order, the marker of the role followed by the content of the message
\* when that content is a string and by nothing when it is not, with the
\* sampling fields and stop sequences.
C11_AnthropicPrompt ==
    (AnthropicRequest /\ ~Names("titan")) =>
        /\ prepared.tag = "Ok"
        /\ "prompt" \in DOMAIN prepared.value.o
        /\ prepared.value.o.prompt =
               Str(Segments(Index(request_body, "messages").a, FALSE))
        /\ AnthropicFieldsRight

C11_Witness ==
    /\ AnthropicRequest
    /\ Index(request_body, "messages").a =
           << Object([role |-> Str(<<"system">>), content |-> Str(<<"be terse">>)]),
              Object([role |-> Str(<<"user">>), content |-> Str(<<"hi">>)]) >>
    /\ prepared.value.o.prompt =
           Str(<<"\n\nSystem: ", "be terse", "\n\nHuman: ", "hi">>)
    /\ prepared.value.o.top_k = U64(250)

\* C12: a body without a messages array is refused with InvalidRequestFormat,
\* whatever its model and its other fields, and nothing is transformed.
C12_NoMessagesIsInvalid ==
    (prepared # Pending /\ ~HasMessagesArray) =>
        prepared = Err("InvalidRequestFormat")

C12_Witness ==
    /\ prepared = Err("InvalidRequestFormat")
    /\ Index(request_body, "model") = Str(<<"meta.llama3-8b">>)
    /\ Index(request_body, "max_tokens") = U64(50)
    /\ "messages" \notin DOMAIN request_body.o

\* the body at hand names a model of neither family: its model field is not a
\* string that holds "titan" or "anthropic"
NeitherFamily == ~Names("titan") /\ ~Names("anthropic")

\* C13 (as claimed): a body whose model matches neither family is refused
\* with UnsupportedModel; a body is transformed only for a model of a family.
C13_NeitherFamilyUnsupported ==
    (prepared # Pending /\ request_body.t = "object") =>
        /\ NeitherFamily => prepared = Err("UnsupportedModel")
        /\ prepared.tag = "Ok" => ~NeitherFamily

\* C13 (amended): a body with a messages array whose model is a string that
\* matches neither family is refused with UnsupportedModel; a body is
\* transformed only when it has a messages array and its model is of a family
\* or is no string (the default Titan model stands in for it).
C13_UnsupportedModel ==
    prepared # Pending =>
        /\ (HasMessagesArray /\ Index(request_body, "model").t = "string"
                /\ NeitherFamily)
              => prepared = Err("UnsupportedModel")
        /\ prepared.tag = "Ok" =>
              /\ HasMessagesArray
              /\ (Index(request_body, "model").t # "string" \/ ~NeitherFamily)
        /\ prepared = Err("UnsupportedModel") =>
              (Index(request_body, "model").t = "string" /\ NeitherFamily)

C13_Witness ==
    /\ prepared = Err("UnsupportedModel")
    /\ Index(request_body, "model") = Str(<<"meta.llama3-8b">>)
    /\ Len(Index(request_body, "messages").a) = 2

(* ------------------------- properties of RouteSpec ---------------------- *)

\* the model name in the path transform_path returned
PathModel == SubSeq(transformed_path.v, 2, Len(transformed_path.v) - 1)

DefaultModel == <<"amazon.", "titan", "-text-premier-v1:0">>

\* C14 (as claimed): transform_path returns /model/{m}/invoke with a model
\* name m that is not empty: the default for a chat path, else the last piece
\* of the path or the default.
C14_PathNamesAModel ==
    transformed_path.some =>
        /\ Len(transformed_path.v) >= 2
        /\ Head(transformed_path.v) = "/model/"
        /\ transformed_path.v[Len(transformed_path.v)] = "/invoke"
        /\ PathModel # <<>>
        /\ Contains(bedrock_path.v, <<"chat", "/", "completions">>)
              => PathModel = DefaultModel
        /\ \/ PathModel = DefaultModel
           \/ PathModel = SplitLast(bedrock_path.v).v

\* C19 (as claimed): the model family the outbound path names is the family
\* whose format the transformed body has, whatever the path and the body
\* (a path that names a model at all).
C19_PathAgreesWithBody ==
    (transformed_path.some /\ prepared.tag = "Ok" /\ PathModel # <<>>) =>
        LET out == prepared.value.o IN
        /\ "inputText" \in DOMAIN out => Contains(PathModel, <<"titan">>)
        /\ "prompt" \in DOMAIN out => Contains(PathModel, <<"anthropic">>)

(* ------------------------ properties of SigningSpec --------------------- *)

\* C15 (as claimed): what process_headers returns holds Content-Type:
\* application/json once, every inbound entry whose name starts with x-aws-,
\* value as it came, and nothing else.
C15_OnlyAwsHeadersPass ==
    final_headers.some =>
        LET inb == bedrock_headers.v
            out == final_headers.v
            json == << <<"content-type">>, <<"application/json">> >>
        IN  /\ \E j \in 1..Len(out) : out[j] = json
            /\ \A i \in 1..Len(inb) :
                  StartsWith(inb[i][1], <<"x-aws-">>) =>
                      \E j \in 1..Len(out) : out[j] = inb[i]
            /\ \A j \in 1..Len(out) :
                  \/ out[j] = json
                  \/ /\ StartsWith(out[j][1], <<"x-aws-">>)
                     /\ \E i \in 1..Len(inb) : inb[i] = out[j]

\* the header of that name is there and its first value is text
Readable(h, name) ==
    /\ HasHeader(h, name)
    /\ \A i \in 1..Len(Get(h, name).v) : Get(h, name).v[i] \notin ObsTextTokens

\* get_signing_credentials returns nothing exactly when the access key id or
\* the secret is absent or no text, and else both as they came and `region`
CredentialsWith(region) ==
    LET h == bedrock_headers.v
        got == credentials.value
        both == /\ Readable(h, <<"x-aws-", "access-key-id">>)
                /\ Readable(h, <<"x-aws-", "secret-access-key">>)
    IN  /\ (got = None) <=> ~both
        /\ both => got = Some(<< Get(h, <<"x-aws-", "access-key-id">>).v,
                                 Get(h, <<"x-aws-", "secret-access-key">>).v,
                                 region >>)

\* C16 (as claimed): the credentials are nothing exactly when a key header is
\* absent or unreadable; else they are the two keys and the region, which is
\* the value of x-aws-region when that header is present and us-east-1 when
\* it is not.
C16_RegionWhenPresent ==
    credentials # Pending =>
        CredentialsWith(IF HasHeader(bedrock_headers.v, <<"x-aws-", "region">>)
                        THEN Get(bedrock_headers.v, <<"x-aws-", "region">>).v
                        ELSE <<"us-east-1">>)

\* C16 (amended): the credentials are nothing exactly when a key header is
\* absent or unreadable; else they are the two keys and the region, which is
\* the value of x-aws-region when that header is present and text, and
\* us-east-1 when it is absent or no text; the header map stays as it was.
C16_SigningCredentials ==
    /\ [](credentials # Pending =>
            CredentialsWith(IF Readable(bedrock_headers.v, <<"x-aws-", "region">>)
                            THEN Get(bedrock_headers.v, <<"x-aws-", "region">>).v
                            ELSE <<"us-east-1">>))
    /\ [][bedrock_headers' = bedrock_headers]_vars

C16_Witness ==
    /\ credentials = Returned(Some(<< <<"AKIA1">>, <<"s3cr3t">>, <<"eu-west-1">> >>))
    /\ HasHeader(bedrock_headers.v, <<"x-amz-", "date">>)

\* C20 (as claimed): the region of the signing credentials is the region of
\* the signing host and of the base URL, whatever x-aws-region holds.
C20_OneRegion ==
    (credentials # Pending /\ credentials.value.some) =>
        LET region == credentials.value.v[3] IN
        /\ get_signing_host =
               <<"bedrock-runtime.">> \o region \o <<".amazonaws.com">>
        /\ bedrock_base_url =
               <<"https://bedrock-runtime.">> \o region \o <<".amazonaws.com">>

(* ----------------------- further properties of Spec --------------------- *)

\* C17: a streaming relay holds at most one chunk that it has read from the
\* upstream and not yet written to the caller, and reads no further while a
\* chunk waits, however long the caller takes.
C17_AtMostOneChunkAhead ==
    /\ [](kind = "Streaming" =>
            Len(PulledChunks) - Len(delivered) = (IF pending.some THEN 1 ELSE 0))
    /\ [][pending.some => up_pos' = up_pos]_vars

C17_Witness ==
    /\ pending.some
    /\ Len(delivered) = 1
    /\ Len(response.v.chunks) = 3

\* C18 (as claimed): a request for openai, anthropic or groq with a readable
\* authorization header passes the header match: it is not rejected, and goes
\* on to send() with the URL origin + path + "?" + query.
C18_OriginIsDispatchable ==
    ( /\ provider \in {"openai", "anthropic", "groq"}
      /\ pc \in {"body", "done"}
      /\ original_request # None
      /\ GetStr(original_request.headers, "authorization").some )
    => /\ pc = "body"
       /\ result = Pending
       /\ url = BaseUrlOf(provider).v \o original_request.path
                   \o (IF original_request.query.some
                       THEN <<"?">> \o original_request.query.v ELSE <<>>)

====
